---- MODULE Spec2Model ----
(***************************************************************************)
(* Model of server/long-pollers/models.js: the LongPollers class, the      *)
(* express response objects it is handed, and the clients that poll it.    *)
(***************************************************************************)
EXTENDS Integers, Sequences, FiniteSets, TLC

\* ------------------------------------------------------------------ bounds
MaxHandles == 2
MaxTime == 2

Handles == 1..MaxHandles
\* the client that polls with the time of the last body it received
Clients == {"client"}
\* the origin of every other request
Anyone == "anyone"
Payloads == {"A", "B"}

VARIABLES
  _responses,    \* this._responses: the pool, an array of response objects
  _lastMessage,  \* this._lastMessage: null or {message, time}
  handles,       \* the response objects: transport state and listeners
  now,           \* the value Date.now() returns
  seen,          \* per polling client: the last body it received
  lastOp,        \* the handler that ran last, with its arguments
  calls,         \* the res.json calls made by the handler that ran last
  raised,        \* whether the handler that ran last threw to its caller
  disconnected   \* handles on which connectionEnded has run

vars == <<_responses, _lastMessage, handles, now, seen, lastOp, calls, raised,
          disconnected>>

\* ------------------------------------------------------------ JS values
\* null, the initial value of this._lastMessage
Null == [null |-> TRUE]

Messages == [message : Payloads, time : 1..(MaxTime + 1)]

\* req.query.lastMessageTime: undefined when the parameter is missing,
\* otherwise the text of the parameter
Undefined == [present |-> FALSE, text |-> <<>>]

QueryTexts == {<<>>, <<"0">>, <<"1">>, <<"2">>, <<"x">>, <<"1", "x">>,
               <<"0", "1">>, <<"1", "2">>}

Queries == {Undefined} \cup {[present |-> TRUE, text |-> t] : t \in QueryTexts}

DigitChars == <<"0", "1", "2", "3", "4", "5", "6", "7", "8", "9">>

IsDigit(c) == \E i \in 1..10 : DigitChars[i] = c

DigitVal(c) == (CHOOSE i \in 1..10 : DigitChars[i] = c) - 1

RECURSIVE DecimalValue(_)
DecimalValue(t) ==
  IF t = <<>> THEN 0
  ELSE 10 * DecimalValue(SubSeq(t, 1, Len(t) - 1)) + DigitVal(t[Len(t)])

\* NaN is [nan |-> TRUE]; a number n is [nan |-> FALSE, val |-> n]
NaN == [nan |-> TRUE, val |-> 0]

\* Number(v): undefined and non-numeric text give NaN, "" gives 0
Number(v) ==
  IF ~v.present THEN NaN
  ELSE IF \A i \in 1..Len(v.text) : IsDigit(v.text[i])
       THEN [nan |-> FALSE, val |-> DecimalValue(v.text)]
       ELSE NaN

\* Number(req.query.lastMessageTime) without the || 0: NaN, here -1,
\* equals no time
QueryMessageTime_NoDefault(q) ==
  LET n == Number(q)
  IN IF n.nan THEN -1 ELSE n.val

\* Number(req.query.lastMessageTime) || 0
QueryMessageTime(q) ==
  LET n == Number(q)
  IN IF n.nan \/ n.val = 0 THEN 0 ELSE n.val

\* the text a client sends for a time it has received
RECURSIVE FormatTime(_)
FormatTime(t) ==
  IF t < 10 THEN <<DigitChars[t + 1]>>
  ELSE Append(FormatTime(t \div 10), DigitChars[(t % 10) + 1])

LastMessageTimeOf_Zero(m) == 0

\* get lastMessageTime()
LastMessageTimeOf(m) == IF m = Null THEN 0 ELSE m.time

lastMessageTime == LastMessageTimeOf(_lastMessage)

\* --------------------------------------------------- the response object
FreshHandle == [used |-> FALSE, owner |-> Anyone, headersSent |-> FALSE,
                finishPending |-> FALSE, closed |-> FALSE,
                onFinish |-> FALSE, onClose |-> FALSE]

\* res.json(value) throws once the response has been sent
JsonThrows(h) == h.headersSent

\* res.json(value): the response object h afterwards; the body goes to
\* the client, and 'finish' is emitted later
Json(h) ==
  IF JsonThrows(h) THEN h
  ELSE [h EXCEPT !.headersSent = TRUE, !.finishPending = TRUE]

CallRecord(hs, res, value) ==
  [res |-> res, value |-> value, threw |-> JsonThrows(hs[res]),
   wasSent |-> hs[res].headersSent, wasClosed |-> hs[res].closed]

CatchesDeliveryError_Not == FALSE

\* the try/catch around res.json in broadcast
CatchesDeliveryError == TRUE

\* a loop that stops one entry short of the end of the pool
RECURSIVE FanOut_SkipsLast(_, _, _, _, _)
FanOut_SkipsLast(rs, i, value, hs, log) ==
  IF i >= Len(rs) THEN [hs |-> hs, log |-> log, raised |-> FALSE]
  ELSE LET r == rs[i]
           c == CallRecord(hs, r, value)
           hs2 == [hs EXCEPT ![r] = Json(hs[r])]
       IN FanOut_SkipsLast(rs, i + 1, value, hs2, Append(log, c))

\* a loop that sends the message stored before this broadcast
RECURSIVE FanOut_Stale(_, _, _, _, _)
FanOut_Stale(rs, i, value, hs, log) ==
  IF i > Len(rs) THEN [hs |-> hs, log |-> log, raised |-> FALSE]
  ELSE LET r == rs[i]
           c == CallRecord(hs, r, _lastMessage)
           hs2 == [hs EXCEPT ![r] = Json(hs[r])]
       IN FanOut_Stale(rs, i + 1, value, hs2, Append(log, c))

\* the for...of loop of broadcast over this._responses
RECURSIVE FanOut(_, _, _, _, _)
FanOut(rs, i, value, hs, log) ==
  IF i > Len(rs) THEN [hs |-> hs, log |-> log, raised |-> FALSE]
  ELSE LET r == rs[i]
           c == CallRecord(hs, r, value)
           hs2 == [hs EXCEPT ![r] = Json(hs[r])]
       IN IF c.threw /\ ~CatchesDeliveryError
          THEN [hs |-> hs2, log |-> Append(log, c), raised |-> TRUE]
          ELSE FanOut(rs, i + 1, value, hs2, Append(log, c))

\* the bodies the polling clients receive from a list of res.json calls
Received(hs, log, old) ==
  [c \in Clients |->
     IF \E i \in 1..Len(log) : ~log[i].threw /\ hs[log[i].res].owner = c
     THEN log[CHOOSE i \in 1..Len(log) : ~log[i].threw /\ hs[log[i].res].owner = c].value
     ELSE old[c]]

\* this._responses.indexOf(res), 0 for -1
RECURSIVE IndexFrom(_, _, _)
IndexFrom(rs, res, i) ==
  IF i > Len(rs) THEN 0
  ELSE IF rs[i] = res THEN i ELSE IndexFrom(rs, res, i + 1)

IndexOf(rs, res) == IndexFrom(rs, res, 1)

Splice1_RemovesFirst(rs, index) == Tail(rs)

\* this._responses.splice(index, 1)
Splice1(rs, index) == SubSeq(rs, 1, index - 1) \o SubSeq(rs, index + 1, Len(rs))

\* a connectionEnded that never splices
RemoveFromPool_Keeps(rs, res) == rs

\* the pool after connectionEnded has run for res
RemoveFromPool(rs, res) ==
  LET index == IndexOf(rs, res)
  IN IF index # 0 THEN Splice1(rs, index) ELSE rs

AddParks_Behind(queryMessageTime, lastTime) == ~(queryMessageTime < lastTime)

AddParks_NotBeforeFirst(queryMessageTime, lastTime) ==
  queryMessageTime = lastTime /\ lastTime # 0

\* queryMessageTime != lastMessageTime is false: the request is parked
AddParks(queryMessageTime, lastTime) == ~(queryMessageTime # lastTime)

Push_Twice(rs, res) == Append(Append(rs, res), res)

\* this._responses.push(res)
Push(rs, res) == Append(rs, res)

\* a message that keeps the time of the first broadcast
NewMessage_KeepsTime(message, t) ==
  [message |-> message,
   time |-> IF _lastMessage = Null THEN t ELSE _lastMessage.time]

\* { message, time: Date.now() }
NewMessage(message, t) == [message |-> message, time |-> t]

Range(s) == {s[i] : i \in 1..Len(s)}

NoOp == [name |-> "init", res |-> {}, query |-> Undefined, message |-> ""]

\* ------------------------------------------------------------------ Init
Init ==
  /\ _responses = <<>>
  /\ _lastMessage = Null
  /\ handles = [h \in Handles |-> FreshHandle]
  /\ now = 1
  /\ seen = [c \in Clients |-> Null]
  /\ lastOp = NoOp
  /\ calls = <<>>
  /\ raised = FALSE
  /\ disconnected = {}

\* --------------------------------------------------------------- actions
\* Date.now() advances
Tick ==
  /\ now < MaxTime
  /\ now' = now + 1
  /\ lastOp' = [NoOp EXCEPT !.name = "tick"]
  /\ calls' = <<>>
  /\ raised' = FALSE
  /\ UNCHANGED <<_responses, _lastMessage, handles, seen, disconnected>>

\* broadcast(message)
Broadcast(message) ==
  LET msg == NewMessage(message, now)
      out == FanOut(_responses, 1, msg, handles, <<>>)
  IN /\ _lastMessage' = msg
     /\ handles' = out.hs
     /\ calls' = out.log
     /\ raised' = out.raised
     /\ seen' = Received(handles, out.log, seen)
     /\ lastOp' = [NoOp EXCEPT !.name = "broadcast", !.message = message]
     /\ UNCHANGED <<_responses, now, disconnected>>

\* add(req, res), for the response object res of a new request of client
\* owner with req.query.lastMessageTime = q
Add(res, owner, q) ==
  LET queryMessageTime == QueryMessageTime(q)
      h == [handles[res] EXCEPT !.used = TRUE, !.owner = owner]
      hs == [handles EXCEPT ![res] = h]
  IN /\ ~handles[res].used
     /\ \A r \in Handles : r < res => handles[r].used
     /\ lastOp' = [NoOp EXCEPT !.name = "add", !.res = {res}, !.query = q]
     /\ raised' = FALSE
     /\ IF ~AddParks(queryMessageTime, lastMessageTime)
        THEN /\ calls' = <<CallRecord(hs, res, _lastMessage)>>
             /\ handles' = [hs EXCEPT ![res] = Json(h)]
             /\ seen' = Received(hs, calls', seen)
             /\ UNCHANGED _responses
        ELSE /\ _responses' = Push(_responses, res)
             /\ handles' = [hs EXCEPT ![res].onFinish = TRUE, ![res].onClose = TRUE]
             /\ calls' = <<>>
             /\ UNCHANGED seen
     /\ UNCHANGED <<_lastMessage, now, disconnected>>

\* a client that has no request open polls with the time of the last
\* body it received, 0 after none or after null
Poll(c) ==
  /\ \A r \in Handles :
       (handles[r].used /\ handles[r].owner = c)
         => (handles[r].headersSent \/ handles[r].closed)
  /\ \E res \in Handles :
       Add(res, c, [present |-> TRUE, text |-> FormatTime(LastMessageTimeOf(seen[c]))])

\* a request from anywhere else, with any query
Request(q) == \E res \in Handles : Add(res, Anyone, q)

\* a connectionEnded that leaves its listeners registered
ConnectionEnded_KeepsListeners(res, hs) ==
  /\ handles' = hs
  /\ _responses' = RemoveFromPool(_responses, res)
  /\ disconnected' = disconnected \cup {res}

\* connectionEnded, when the listener is still registered for the event
ConnectionEnded(res, hs) ==
  /\ handles' = [hs EXCEPT ![res].onFinish = FALSE, ![res].onClose = FALSE]
  /\ _responses' = RemoveFromPool(_responses, res)
  /\ disconnected' = disconnected \cup {res}

\* the response object emits 'finish'
Finish(res) ==
  LET hs == [handles EXCEPT ![res].finishPending = FALSE]
  IN /\ handles[res].finishPending
     /\ IF handles[res].onFinish
        THEN ConnectionEnded(res, hs)
        ELSE /\ handles' = hs
             /\ UNCHANGED <<_responses, disconnected>>
     /\ lastOp' = [NoOp EXCEPT !.name = "finish", !.res = {res}]
     /\ calls' = <<>>
     /\ raised' = FALSE
     /\ UNCHANGED <<_lastMessage, now, seen>>

\* the response object emits 'close': the connection is gone
Close(res) ==
  LET hs == [handles EXCEPT ![res].closed = TRUE]
  IN /\ handles[res].used
     /\ ~handles[res].closed
     /\ IF handles[res].onClose
        THEN ConnectionEnded(res, hs)
        ELSE /\ handles' = hs
             /\ UNCHANGED <<_responses, disconnected>>
     /\ lastOp' = [NoOp EXCEPT !.name = "close", !.res = {res}]
     /\ calls' = <<>>
     /\ raised' = FALSE
     /\ UNCHANGED <<_lastMessage, now, seen>>

Next ==
  \/ Tick
  \/ \E message \in Payloads : Broadcast(message)
  \/ \E c \in Clients : Poll(c)
  \/ \E q \in Queries : Request(q)
  \/ \E res \in Handles : Finish(res)
  \/ \E res \in Handles : Close(res)

Spec == Init /\ [][Next]_vars

TypeOK ==
  /\ _responses \in Seq(Handles)
  /\ _lastMessage \in Messages \cup {Null}
  /\ now \in 1..(MaxTime + 1)
  /\ raised \in BOOLEAN
  /\ disconnected \subseteq Handles

\* ---------------------------------------------------------------- claims
IsBroadcast(op) == op.name = "broadcast"
IsAdd(op) == op.name = "add"
IsEvent(op) == op.name \in {"finish", "close"}

CallsOn(log, res) == {i \in 1..Len(log) : log[i].res = res}

\* C1: a broadcast calls res.json exactly once on every handle that is in
\* the pool when it is invoked, with {message: payload, time: the time of
\* this broadcast}, and on no handle twice.
C1_BroadcastFanOut ==
  [][IsBroadcast(lastOp') =>
       /\ \A res \in Range(_responses) : Cardinality(CallsOn(calls', res)) = 1
       /\ \A res \in Handles : Cardinality(CallsOn(calls', res)) <= 1
       /\ \A i \in 1..Len(calls') :
            /\ calls'[i].value = [message |-> lastOp'.message, time |-> now]
            /\ calls'[i].value = _lastMessage']_vars

C1_Witness ==
  /\ IsBroadcast(lastOp)
  /\ Len(calls) >= 2
  /\ \A i \in 1..Len(calls) : ~calls[i].threw

\* C2: an add whose query time differs from lastMessageTime (0 when there
\* is no message) calls res.json on its handle with the latest message
\* (null when there is none) inside the call, does not put the handle in
\* the pool and leaves the pool as it was.
C2_CaughtUpDelivery ==
  [][(IsAdd(lastOp') /\ QueryMessageTime(lastOp'.query) # lastMessageTime) =>
       \A res \in lastOp'.res :
         /\ Len(calls') = 1
         /\ calls'[1].res = res
         /\ calls'[1].value = _lastMessage
         /\ ~calls'[1].threw
         /\ handles'[res].headersSent
         /\ res \notin Range(_responses')
         /\ _responses' = _responses]_vars

C2_Witness ==
  /\ IsAdd(lastOp)
  /\ Len(calls) = 1
  /\ calls[1].value # Null
  /\ QueryMessageTime(lastOp.query) > lastMessageTime
  /\ _responses # <<>>

\* C3: an add whose query time equals lastMessageTime (also 0 = 0 before
\* any broadcast) puts the handle in the pool and makes no res.json call;
\* a handle in the pool gets a res.json call from a broadcast only.
C3_ParkAndWait ==
  [][/\ (IsAdd(lastOp') /\ QueryMessageTime(lastOp'.query) = lastMessageTime) =>
          \A res \in lastOp'.res :
            /\ res \in Range(_responses')
            /\ calls' = <<>>
            /\ ~handles'[res].headersSent
     /\ \A i \in 1..Len(calls') :
          calls'[i].res \in Range(_responses) => IsBroadcast(lastOp')
     /\ \A res \in Range(_responses) :
          handles'[res].headersSent # handles[res].headersSent
            => IsBroadcast(lastOp')]_vars

C3_Witness ==
  /\ IsAdd(lastOp)
  /\ calls = <<>>
  /\ _lastMessage = Null
  /\ lastOp.res \subseteq Range(_responses)

\* C4 (as claimed): right after a broadcast the pool is empty.
C4_PoolDrained == IsBroadcast(lastOp) => _responses = <<>>

\* C5 (as claimed): a client that polls with the time of the last body it
\* received is never parked while the latest message is one it has not
\* received.
C5_NoMissedMessage ==
  \A c \in Clients : \A res \in Range(_responses) :
    (handles[res].owner = c /\ ~handles[res].headersSent)
      => seen[c] = _lastMessage

\* C6 (as claimed): res.json is never called on a handle that has been
\* delivered to or that has closed.
C6_AtMostOneWrite ==
  \A i \in 1..Len(calls) : ~calls[i].wasSent /\ ~calls[i].wasClosed

\* C7: when res.json throws for a handle of the pool, the broadcast still
\* calls res.json on every other handle of the pool, does not throw to its
\* caller, and the latest message is the new one.
C7_FailureIsolation ==
  [][(IsBroadcast(lastOp') /\ \E i \in 1..Len(calls') : calls'[i].threw) =>
       /\ \A res \in Range(_responses) : CallsOn(calls', res) # {}
       /\ \A res \in Range(_responses) :
            ~handles[res].headersSent => handles'[res].headersSent
       /\ ~raised'
       /\ _lastMessage' = [message |-> lastOp'.message, time |-> now]]_vars

C7_Witness ==
  /\ IsBroadcast(lastOp)
  /\ Len(calls) = 2
  /\ calls[1].threw
  /\ ~calls[2].threw

\* C8 (as claimed): a handle whose res.json threw during a broadcast is
\* not in the pool after that broadcast.
C8_FailedDeliveryRemoved ==
  IsBroadcast(lastOp) =>
    \A i \in 1..Len(calls) : calls[i].threw => calls[i].res \notin Range(_responses)

\* C9: a finish or close event of a handle that is parked removes exactly
\* that handle from the pool, and no broadcast calls res.json on a handle
\* whose event has fired, nor throws.
C9_DisconnectCleanup ==
  [][/\ IsEvent(lastOp') =>
          \A res \in lastOp'.res :
            res \in Range(_responses) =>
              /\ Len(_responses') = Len(_responses) - 1
              /\ Range(_responses') = Range(_responses) \ {res}
              /\ res \in disconnected'
     /\ IsBroadcast(lastOp') =>
          /\ \A i \in 1..Len(calls') : calls'[i].res \notin disconnected
          /\ ~raised']_vars

C9_Witness ==
  /\ IsBroadcast(lastOp)
  /\ calls # <<>>
  /\ \E res \in disconnected : ~handles[res].headersSent

\* C10: no handle is in the pool twice.
C10_PoolUnique ==
  \A i, j \in 1..Len(_responses) : _responses[i] = _responses[j] => i = j

C10_Witness == Len(_responses) >= 2

\* C11: the time of the stored latest message never decreases; after a
\* broadcast lastMessageTime is the time of that broadcast, and it is 0
\* until the first broadcast.
C11_TimestampMonotone ==
  /\ lastMessageTime = 0
  /\ [][/\ LastMessageTimeOf(_lastMessage') >= LastMessageTimeOf(_lastMessage)
        /\ IsBroadcast(lastOp') =>
             /\ _lastMessage' # Null
             /\ _lastMessage'.time = now
             /\ LastMessageTimeOf(_lastMessage') = now
        /\ (_lastMessage = Null /\ ~IsBroadcast(lastOp')) =>
             LastMessageTimeOf(_lastMessage') = 0]_vars

C11_Witness ==
  /\ IsBroadcast(lastOp)
  /\ lastMessageTime > 1
  /\ \E c \in Clients : seen[c] # Null /\ seen[c].time < lastMessageTime

\* C12: the first finish or close event of a parked handle removes it from
\* the pool and deregisters both listeners; a later finish or close event
\* of that handle does not run connectionEnded again and leaves the pool
\* and the latest message as they were.
C12_ObserverIdempotence ==
  [][IsEvent(lastOp') =>
       \A res \in lastOp'.res :
         /\ res \in Range(_responses) =>
              /\ res \notin Range(_responses')
              /\ ~handles'[res].onFinish
              /\ ~handles'[res].onClose
         /\ res \in disconnected =>
              /\ ~handles[res].onFinish
              /\ ~handles[res].onClose
              /\ _responses' = _responses
              /\ _lastMessage' = _lastMessage
              /\ handles'[res].onFinish = handles[res].onFinish
              /\ handles'[res].onClose = handles[res].onClose]_vars

C12_Witness ==
  /\ IsEvent(lastOp)
  /\ _responses # <<>>
  /\ \E res \in lastOp.res :
       /\ res \in disconnected
       /\ handles[res].closed
       /\ handles[res].headersSent
       /\ ~handles[res].finishPending

\* C13: the latest message is null until the first broadcast; a broadcast
\* sets it to exactly {message: payload, time: the time of the broadcast};
\* add and the finish and close callbacks leave it as it was.
C13_SoleWritePath ==
  /\ _lastMessage = Null
  /\ [][/\ IsBroadcast(lastOp') =>
             _lastMessage' = [message |-> lastOp'.message, time |-> now]
        /\ ~IsBroadcast(lastOp') => _lastMessage' = _lastMessage]_vars

C13_Witness ==
  /\ IsBroadcast(lastOp)
  /\ _lastMessage = [message |-> "B", time |-> MaxTime]
  /\ \E c \in Clients : seen[c] = [message |-> "A", time |-> 1]
  /\ _responses # <<>>

\* a lastMessageTime that is missing or is not a number
Malformed(q) == ~q.present \/ \E i \in 1..Len(q.text) : ~IsDigit(q.text[i])

IsZero(q) == q.present /\ q.text = <<"0">>

\* C14: an add whose lastMessageTime is missing or not a number does what
\* an add with lastMessageTime=0 does: it parks the handle when
\* lastMessageTime is 0 and answers with the latest message otherwise, and
\* it does not throw.
C14_MalformedIsZero ==
  [][(IsAdd(lastOp') /\ (Malformed(lastOp'.query) \/ IsZero(lastOp'.query))) =>
       \A res \in lastOp'.res :
         /\ ~raised'
         /\ IF _lastMessage = Null \/ lastMessageTime = 0
            THEN /\ calls' = <<>>
                 /\ _responses' = Append(_responses, res)
                 /\ ~handles'[res].headersSent
            ELSE /\ Len(calls') = 1
                 /\ calls'[1].res = res
                 /\ calls'[1].value = _lastMessage
                 /\ ~calls'[1].threw
                 /\ _responses' = _responses]_vars

C14_Witness ==
  /\ IsAdd(lastOp)
  /\ Malformed(lastOp.query)
  /\ lastOp.query.present
  /\ Len(calls) = 1
  /\ calls[1].value # Null

\* C15: between operations a handle is in the pool exactly when the finish
\* and the close listener that add registered on it are both registered;
\* a handle answered by the catch-up path has no listener, nor has a handle
\* that has left the pool.
C15_ObserverPoolCorrespondence ==
  \A res \in Handles :
    /\ (res \in Range(_responses)) <=> handles[res].onFinish
    /\ (res \in Range(_responses)) <=> handles[res].onClose
    /\ res \in disconnected => res \notin Range(_responses)

C15_Witness ==
  \E parked, other \in Handles :
    /\ parked \in Range(_responses)
    /\ handles[parked].onFinish /\ handles[parked].onClose
    /\ handles[other].used
    /\ other \notin Range(_responses)
    /\ ~handles[other].onFinish /\ ~handles[other].onClose

\* C16: every res.json call, of broadcast's loop and of add's catch-up
\* path, carries the latest message stored when the call is made; a
\* message that a later broadcast has replaced is not delivered.
C16_NoStaleDelivery ==
  \A i \in 1..Len(calls) : calls[i].value = _lastMessage

C16_Witness ==
  /\ IsAdd(lastOp)
  /\ Len(calls) = 1
  /\ calls[1].value # Null
  /\ \E c \in Clients : seen[c] # Null /\ seen[c] # calls[1].value
====
